---------------------------- MODULE Spec2Model ----------------------------
(***************************************************************************)
(* A model of "Program file/gui_interface.py": the UART frame reader       *)
(* (UARTReader), the rolling buffer (App.data / App.on_new_data), the      *)
(* start/stop life cycle of the reader thread and the render tick          *)
(* (App.update_plot / App.on_close).                                       *)
(*                                                                         *)
(* Four specifications share the module:                                   *)
(*   SpecDecode  the decode loop of UARTReader._run_uart over a byte wire  *)
(*   SpecBuf     sequential pushes through App.on_new_data                 *)
(*   SpecLayout  App.load_config / App.setup_plots over files of every     *)
(*               kind, with the render tick and sequential pushes          *)
(*   Spec        the application: Tk handlers on the main thread, reader   *)
(*               threads, the render tick (FairSpec adds thread progress)  *)
(*                                                                         *)
(* A float is modelled by the 32-bit pattern of its IEEE-754 single        *)
(* encoding, written as the pair <<high 16 bits, low 16 bits>> (TLC's      *)
(* integers are 32-bit signed): struct.unpack('<16f') is then the          *)
(* little-endian assembly of four bytes.                                   *)
(***************************************************************************)
EXTENDS Integers, Sequences, FiniteSets, TLC

VARIABLES
    \* ---- the decode loop (SpecDecode)
    wire_segs,      \* what the device sends: a sequence of segment kinds
    wire,           \* the bytes of those segments, in order
    uart_pos,       \* number of bytes of the wire that ser.read has returned
    uart_buffer,    \* _run_uart's local `buffer`
    uart_log,       \* history: every candidate frame taken, with what it emitted
    uart_calls,     \* history: the arguments of every self.callback(floats)
    uart_running,   \* self.running of the reader
    uart_stopreq,   \* history: stop() was called
    \* ---- the rolling buffer (SpecBuf, Spec)
    data,           \* App.data: NCHANNELS rows of history_length values
    pushed,         \* history (SpecBuf): the sample sets pushed so far
    \* ---- the application (Spec)
    main_pc,        \* where the Tk main thread is: idle or inside a handler
    closing,        \* App._closing
    after_id,       \* App._after_id is set (not None)
    timer_pending,  \* Tk holds a scheduled update_plot
    root_alive,     \* the Tk root (and the canvas) has not been destroyed
    start_btn,      \* state of the Start button
    stop_btn,       \* state of the Stop button
    reader,         \* App.reader: 0 for None, else the thread's number
    thr,            \* the UARTReader threads created so far
    config_data,    \* App.config_data: NoDoc for None, else the document
    subplots,       \* App.subplots (their number)
    lines,          \* App.lines: (cfg, ch_idx) with the subplot it was drawn on
    channel_keys,   \* App.channel_keys
    render_i,       \* update_plot's position in `for item in self.lines`
    last_tick,      \* history: what the latest update_plot call did
    obs             \* history: the latest row update_plot read and handed over

decVars == <<wire_segs, wire, uart_pos, uart_buffer, uart_log, uart_calls,
             uart_running, uart_stopreq>>

bufVars == <<data, pushed>>

appVars == <<main_pc, closing, after_id, timer_pending, root_alive, start_btn,
             stop_btn, reader, thr, config_data, subplots, lines, channel_keys,
             render_i, last_tick, obs>>

vars == <<decVars, bufVars, appVars>>

---------------------------------------------------------------------------
(* Bounds of the model                                                     *)

\* the longest wire, in segments (frames, corrupted frames, stray bytes)
MaxSegs == 2

\* App.history_length, the depth of the rolling buffer. The program sets 200
\* (line 120); the buffer's logic is checked at a small depth, and every formula
\* is stated for whatever depth this is.
history_length == 3

\* the sample sets a source of Spec may deliver are Sample(1) .. Sample(MaxVal)
MaxVal == 1

\* the sample sets SpecBuf pushes are Sample(1) .. Sample(MaxPushVal)
MaxPushVal == 2

\* SpecBuf pushes at most this many sample sets (more than history_length)
MaxPush == 6

\* the reader threads one run of the application may create
MaxThreads == 2

---------------------------------------------------------------------------
(* Constants of the program                                                *)

\* 16 channels: range(16), '<16f', np.zeros((16, ...))
NCHANNELS == 16

\* the frame's length with the terminator forgotten
FRAME_SIZE_Payload == NCHANNELS * 4

FRAME_SIZE == NCHANNELS * 4 + 2

TERMINATOR == <<170, 187>>

---------------------------------------------------------------------------
(* Byte strings                                                            *)

\* s[:n]
Take(s, n) == SubSeq(s, 1, IF n < Len(s) THEN n ELSE Len(s))

\* s[n:]
Drop(s, n) == SubSeq(s, n + 1, Len(s))

\* s[-n:]
Last(s, n) == SubSeq(s, (IF Len(s) > n THEN Len(s) - n ELSE 0) + 1, Len(s))

\* one '<f' field: four bytes, least significant first
UnpackLE32(b) == <<b[3] + 256 * b[4], b[1] + 256 * b[2]>>

\* one '>f' field; the byte order a wrong format string would read
UnpackBE32(b) == <<b[2] + 256 * b[1], b[4] + 256 * b[3]>>

UnpackField(b) == UnpackLE32(b)

\* struct.unpack('<16f', payload): field after field, left to right
RECURSIVE Unpack16f(_)
Unpack16f(payload) ==
    IF Len(payload) < 4 THEN <<>>
    ELSE <<UnpackField(Take(payload, 4))>> \o Unpack16f(Drop(payload, 4))

\* frame[:64]
Payload(frame) == Take(frame, NCHANNELS * 4)

\* a check of the first terminator byte only
IsTerminatedLoose(frame) == Last(frame, 2)[1] = TERMINATOR[1]

\* frame[-2:] == TERMINATOR
IsTerminated(frame) == Last(frame, 2) = TERMINATOR

---------------------------------------------------------------------------
(* The rolling buffer: App.data, App.on_new_data                           *)

\* the sample set number v: 16 values, all different and none zero
Sample(v) == [c \in 1 .. NCHANNELS |-> 100 * v + c]

SampleVals == 1 .. MaxVal

\* np.zeros((16, self.history_length))
Zeros == [r \in 1 .. NCHANNELS |-> [k \in 1 .. history_length |-> 0]]

\* np.roll(row, +1): the last value wraps to the front
RollRowRight(row) == <<row[Len(row)]>> \o SubSeq(row, 1, Len(row) - 1)

\* a shift that drops the oldest value and appends nothing: the row shrinks
RollRowShrink(row) == Tail(row)

\* np.roll(row, -1): every value moves one place left, the first wraps to the end
RollRow(row) == Tail(row) \o <<Head(row)>>

\* np.roll(self.data, -1, axis=1)
Roll(d) == [r \in 1 .. NCHANNELS |-> RollRow(d[r])]

\* d[:, -1] = floats
SetLast(d, floats) == [r \in 1 .. NCHANNELS |-> [d[r] EXCEPT ![Len(d[r])] = floats[r]]]

\* App.on_new_data run to its end with nothing in between
OnNewData(d, floats) == SetLast(Roll(d), floats)

BufInit ==
    /\ data = Zeros
    /\ pushed = <<>>

\* one callback of a source, with no reader and no other writer around
Push ==
    /\ Len(pushed) < MaxPush
    /\ \E v \in 1 .. MaxPushVal :
          /\ data' = OnNewData(data, Sample(v))
          /\ pushed' = Append(pushed, Sample(v))
    /\ UNCHANGED <<decVars, appVars>>

---------------------------------------------------------------------------
(* The wire: what the serial device sends                                  *)

\* 64 payload bytes, all different within a field
PayloadA == [k \in 1 .. NCHANNELS * 4 |-> (3 * k + 1) % 256]

\* a payload that holds the terminator's bytes at every even offset
PayloadB == [k \in 1 .. NCHANNELS * 4 |-> IF k % 2 = 1 THEN 170 ELSE 187]

SegKinds == {"A", "B", "X", "T", "J", "K"}

SegBytes(kind) ==
    CASE kind = "A" -> PayloadA \o TERMINATOR             \* a valid frame
      [] kind = "B" -> PayloadB \o TERMINATOR             \* a valid frame
      [] kind = "X" -> PayloadA \o <<170, 0>>             \* a corrupted terminator
      [] kind = "T" -> Drop(PayloadA \o TERMINATOR, 1)    \* a frame that lost its first byte
      [] kind = "J" -> <<0>>                              \* one stray byte
      [] kind = "K" -> <<0, 0>>                           \* two stray bytes

RECURSIVE WireOf(_)
WireOf(segs) ==
    IF segs = <<>> THEN <<>> ELSE SegBytes(Head(segs)) \o WireOf(Tail(segs))

SeqsUpTo(S, n) == UNION {[1 .. k -> S] : k \in 0 .. n}

Min(a, b) == IF a < b THEN a ELSE b

---------------------------------------------------------------------------
(* UARTReader._run_uart                                                    *)

\* a decoder that re-aligns byte by byte: a candidate that fails the terminator
\* check costs one byte, not one block
RECURSIVE DecodeLoopResync(_, _, _)
DecodeLoopResync(buf, log, calls) ==
    IF Len(buf) >= FRAME_SIZE
    THEN LET frame == Take(buf, FRAME_SIZE)
         IN  IF Last(frame, 2) = TERMINATOR
             THEN DecodeLoopResync(Drop(buf, FRAME_SIZE),
                      Append(log, [frame |-> frame,
                                   out |-> <<Unpack16f(Take(frame, NCHANNELS * 4))>>]),
                      Append(calls, Unpack16f(Take(frame, NCHANNELS * 4))))
             ELSE DecodeLoopResync(Drop(buf, 1),
                      Append(log, [frame |-> frame, out |-> <<>>]), calls)
    ELSE [buffer |-> buf, log |-> log, calls |-> calls]

\* the inner loop of one pass: while len(buffer) >= FRAME_SIZE
RECURSIVE DecodeLoop(_, _, _)
DecodeLoop(buf, log, calls) ==
    IF Len(buf) >= FRAME_SIZE
    THEN LET frame == Take(buf, FRAME_SIZE)
             rest  == Drop(buf, FRAME_SIZE)
         IN  IF IsTerminated(frame)
             THEN LET floats == Unpack16f(Payload(frame))
                  IN  DecodeLoop(rest,
                                 Append(log, [frame |-> frame, out |-> <<floats>>]),
                                 Append(calls, floats))
             ELSE DecodeLoop(rest,
                             Append(log, [frame |-> frame, out |-> <<>>]),
                             calls)
    ELSE [buffer |-> buf, log |-> log, calls |-> calls]

\* an iteration that stores the bytes read in place of appending them:
\* buffer = data
UartReadOverwrite ==
    /\ uart_running
    /\ \E n \in 0 .. Min(FRAME_SIZE, Len(wire) - uart_pos) :
          LET read_data == SubSeq(wire, uart_pos + 1, uart_pos + n)
              pass == DecodeLoop(read_data, uart_log, uart_calls)
          IN  /\ uart_pos' = uart_pos + n
              /\ IF read_data # <<>>
                 THEN /\ uart_buffer' = pass.buffer
                      /\ uart_log' = pass.log
                      /\ uart_calls' = pass.calls
                 ELSE UNCHANGED <<uart_buffer, uart_log, uart_calls>>
    /\ UNCHANGED <<wire_segs, wire, uart_running, uart_stopreq>>
    /\ UNCHANGED <<bufVars, appVars>>

\* One iteration of `while self.running`: ser.read(FRAME_SIZE) returns the next
\* n bytes of the wire, n = 0 on a timeout; then the decode pass.
UartRead ==
    /\ uart_running
    /\ \E n \in 0 .. Min(FRAME_SIZE, Len(wire) - uart_pos) :
          LET read_data == SubSeq(wire, uart_pos + 1, uart_pos + n)
              pass == DecodeLoop(uart_buffer \o read_data, uart_log, uart_calls)
          IN  /\ uart_pos' = uart_pos + n
              /\ IF read_data # <<>>
                 THEN /\ uart_buffer' = pass.buffer
                      /\ uart_log' = pass.log
                      /\ uart_calls' = pass.calls
                 ELSE UNCHANGED <<uart_buffer, uart_log, uart_calls>>
    /\ UNCHANGED <<wire_segs, wire, uart_running, uart_stopreq>>
    /\ UNCHANGED <<bufVars, appVars>>

\* UARTReader.stop, called from another thread between two iterations
UartStop ==
    /\ ~uart_stopreq
    /\ uart_running' = FALSE
    /\ uart_stopreq' = TRUE
    /\ UNCHANGED <<wire_segs, wire, uart_pos, uart_buffer, uart_log, uart_calls>>
    /\ UNCHANGED <<bufVars, appVars>>

DecInit ==
    /\ wire_segs \in SeqsUpTo(SegKinds, MaxSegs)
    /\ wire = WireOf(wire_segs)
    /\ uart_pos = 0
    /\ uart_buffer = <<>>
    /\ uart_log = <<>>
    /\ uart_calls = <<>>
    /\ uart_running = TRUE
    /\ uart_stopreq = FALSE

DecNext == UartRead \/ UartStop

\* the decode loop at rest, for the specifications that do not run it
DecIdle ==
    /\ wire_segs = <<>>
    /\ wire = <<>>
    /\ uart_pos = 0
    /\ uart_buffer = <<>>
    /\ uart_log = <<>>
    /\ uart_calls = <<>>
    /\ uart_running = FALSE
    /\ uart_stopreq = FALSE

---------------------------------------------------------------------------
(* Layout configuration: App.load_config, App.setup_plots                  *)

\* A document is what json.load returned, or that it raised. `kind` is
\*   "none"         no document (App.config_data is None)
\*   "doc"          a JSON object whose channels are objects
\*   "badchan"      a JSON object whose LAST channel is not an object ("b": 5)
\*   "list"         JSON that is not an object ([1])
\*   "unparseable"  not JSON, or a file that cannot be opened
\* `truthy` is Python's bool() of the value; "subplots" and "channels" absent
\* read as empty, which is what .get("subplots", []) and .get("channels", {}) give.
NoDoc == [kind |-> "none", truthy |-> FALSE, subplots |-> <<>>, channels |-> <<>>]

Chan(key, subplot, scale) == [key |-> key, subplot |-> subplot, scale |-> scale]

\* a channel whose configuration is the empty object: "k": {}
ChanBare(key) == [key |-> key]

\* {"subplots":[{"title":"A"}],"channels":{"ch0":{"scale":2.0,"subplot":0}}}
DocOne ==
    [kind |-> "doc", truthy |-> TRUE, subplots |-> <<"A">>,
     channels |-> <<Chan("ch0", 0, 2)>>]

\* two subplots; a channel far above and one below the subplot range
DocTwo ==
    [kind |-> "doc", truthy |-> TRUE, subplots |-> <<"A", "B">>,
     channels |-> <<Chan("x", 99, 1), Chan("y", -5, 3)>>]

\* {}
DocEmpty ==
    [kind |-> "doc", truthy |-> FALSE, subplots |-> <<>>, channels |-> <<>>]

\* the documents the application of Spec loads
Docs == {DocOne, DocTwo, DocEmpty}

\* {"subplots":[],"channels":{"p":{},"q":{"scale":3,"subplot":1}}}
DocNoSubplots ==
    [kind |-> "doc", truthy |-> TRUE, subplots |-> <<>>,
     channels |-> <<ChanBare("p"), Chan("q", 1, 3)>>]

\* {"subplots":[{"title":"A"},{"title":"B"}]}
DocNoChannels ==
    [kind |-> "doc", truthy |-> TRUE, subplots |-> <<"A", "B">>, channels |-> <<>>]

WideKeys ==
    <<"c0", "c1", "c2", "c3", "c4", "c5", "c6", "c7", "c8", "c9", "c10", "c11",
      "c12", "c13", "c14", "c15", "c16">>

\* one subplot and 17 channels "c0" .. "c16", each {}: one more than the buffer
\* has rows
DocWide ==
    [kind |-> "doc", truthy |-> TRUE, subplots |-> <<"A">>,
     channels |-> [k \in 1 .. Len(WideKeys) |-> ChanBare(WideKeys[k])]]

\* {"subplots":[{"title":"A"},{"title":"B"}],"channels":{"u":{"subplot":1},"v":5}}
DocBadChan ==
    [kind |-> "badchan", truthy |-> TRUE, subplots |-> <<"A", "B">>,
     channels |-> <<[key |-> "u", subplot |-> 1], ChanBare("v")>>]

\* [1]
DocList ==
    [kind |-> "list", truthy |-> TRUE, subplots |-> <<>>, channels |-> <<>>]

\* a file that is not JSON
DocUnparseable ==
    [kind |-> "unparseable", truthy |-> FALSE, subplots |-> <<>>, channels |-> <<>>]

\* the files SpecLayout loads; NoDoc is a file holding null
AllDocs ==
    Docs \cup {DocNoSubplots, DocNoChannels, DocWide, DocBadChan, DocList,
               DocUnparseable, NoDoc}

\* n_subplots = len(subplots_cfg) or 1
NSubplots(doc) == IF Len(doc.subplots) = 0 THEN 1 ELSE Len(doc.subplots)

\* the low guard forgotten
ClampSubplotHighOnly(idx, n) == IF idx >= n THEN n - 1 ELSE idx

\* the two guards on subplot_idx
ClampSubplot(idx, n) ==
    LET lo == IF idx < 0 THEN 0 ELSE idx
    IN  IF lo >= n THEN n - 1 ELSE lo

\* ch.get("subplot", 0)
GetSubplot(ch) == IF "subplot" \in DOMAIN ch THEN ch.subplot ELSE 0

\* cfg.get("scale", 1.0)
GetScale(cfg) == IF "scale" \in DOMAIN cfg THEN cfg.scale ELSE 1

\* a binding that counts the channels from one
SetupLinesFromOne(doc) ==
    [k \in 1 .. Len(doc.channels) |->
        [cfg |-> doc.channels[k],
         ch_idx |-> k,
         subplot |-> ClampSubplot(GetSubplot(doc.channels[k]), NSubplots(doc))]]

\* the loop over enumerate(self.channel_keys): one line per channel
SetupLines(doc) ==
    [k \in 1 .. Len(doc.channels) |->
        [cfg |-> doc.channels[k],
         ch_idx |-> k - 1,
         subplot |-> ClampSubplot(GetSubplot(doc.channels[k]), NSubplots(doc))]]

ChannelKeys(doc) == [k \in 1 .. Len(doc.channels) |-> doc.channels[k].key]

\* the lines setup_plots has appended when it returns or raises: ch.get raises
\* on a channel that is not an object, after the lines of the channels before it
LinesBuilt(doc) ==
    IF doc.kind = "badchan"
    THEN SubSeq(SetupLines(doc), 1, Len(doc.channels) - 1)
    ELSE SetupLines(doc)

---------------------------------------------------------------------------
(* The application: App and its UARTReader threads                         *)

\* whether pyserial could be imported. With FALSE every reader is a dummy, which
\* is the behaviour of TRUE with the Dummy Mode box always ticked.
UART_AVAILABLE == TRUE

Threads == 1 .. MaxThreads

Unborn ==
    [pc |-> "unborn", running |-> FALSE, dummy |-> TRUE, ser_set |-> FALSE,
     port |-> "none", floats |-> 0, stopreq |-> FALSE]

\* UARTReader.__init__
NewReader(dummy) ==
    [Unborn EXCEPT !.pc = "start", !.dummy = dummy \/ ~UART_AVAILABLE]

Created == {t \in Threads : thr[t].pc # "unborn"}

Alive == {t \in Threads : thr[t].pc \notin {"unborn", "done"}}

NoTick == [ran |-> FALSE, closing |-> FALSE, touched |-> FALSE, scheduled |-> FALSE]

NoObs == [ch_idx |-> -1, row |-> <<>>, y |-> <<>>, allowed |-> {}]

\* the state App.__init__ leaves, its first update_plot() included
AppInit ==
    /\ main_pc = "idle"
    /\ closing = FALSE
    /\ after_id = TRUE
    /\ timer_pending = TRUE
    /\ root_alive = TRUE
    /\ start_btn = "normal"
    /\ stop_btn = "disabled"
    /\ reader = 0
    /\ thr = [t \in Threads |-> Unborn]
    /\ config_data = NoDoc
    /\ subplots = 0
    /\ lines = <<>>
    /\ channel_keys = <<>>
    /\ render_i = 0
    /\ last_tick = NoTick
    /\ obs = NoObs

mainVars == <<main_pc, closing, after_id, timer_pending, root_alive, start_btn,
              stop_btn, reader>>
layoutVars == <<config_data, subplots, lines, channel_keys>>
renderVars == <<render_i, last_tick, obs>>

\* App.load_config with a file chosen that holds `doc`, and setup_plots. An
\* exception leaves the handler where it is raised; Tk reports it and the main
\* loop goes on.
LoadDoc(doc) ==
    /\ main_pc = "idle"
    /\ IF doc.kind = "unparseable"
       THEN \* json.load raises: nothing is assigned
            UNCHANGED layoutVars
       ELSE /\ config_data' = doc
            /\ IF ~doc.truthy \/ doc.kind = "list"
               THEN \* setup_plots returns at once, or .get raises on line 144
                    UNCHANGED <<subplots, lines, channel_keys>>
               ELSE /\ subplots' = NSubplots(doc)
                    /\ channel_keys' = ChannelKeys(doc)
                    /\ lines' = LinesBuilt(doc)
    /\ UNCHANGED <<mainVars, thr, renderVars, decVars, bufVars>>

LoadConfig == \E doc \in Docs : LoadDoc(doc)

\* load_config over every kind of file
LoadConfigAny == \E doc \in AllDocs : LoadDoc(doc)

\* App.start_reader, from the Start button
StartReader ==
    /\ main_pc = "idle"
    /\ start_btn = "normal"
    /\ \E baud_ok \in BOOLEAN, dummy \in BOOLEAN :
          IF reader # 0 /\ thr[reader].running
          THEN UNCHANGED <<thr, reader, start_btn, stop_btn>>
          ELSE IF ~baud_ok
          THEN UNCHANGED <<thr, reader, start_btn, stop_btn>>
          ELSE /\ Cardinality(Created) < MaxThreads
               /\ LET t == Cardinality(Created) + 1
                  IN  /\ thr' = [thr EXCEPT ![t] = NewReader(dummy)]
                      /\ reader' = t
               /\ start_btn' = "disabled"
               /\ stop_btn' = "normal"
    /\ UNCHANGED <<main_pc, closing, after_id, timer_pending, root_alive>>
    /\ UNCHANGED <<layoutVars, renderVars, decVars, bufVars>>

\* UARTReader.stop, first statement: self.running = False
StopFlag(t) == [thr EXCEPT ![t].running = FALSE]

\* App.stop_reader, from the Stop button, up to reader.stop()'s first statement
StopReader ==
    /\ main_pc = "idle"
    /\ stop_btn = "normal"
    /\ IF reader # 0
       THEN /\ thr' = StopFlag(reader)
            /\ main_pc' = "sr_close"
            /\ UNCHANGED <<start_btn, stop_btn>>
       ELSE /\ start_btn' = "normal"
            /\ stop_btn' = "disabled"
            /\ UNCHANGED <<thr, main_pc>>
    /\ UNCHANGED <<closing, after_id, timer_pending, root_alive, reader>>
    /\ UNCHANGED <<layoutVars, renderVars, decVars, bufVars>>

\* UARTReader.stop, second statement: if self.ser: self.ser.close()
StopClose ==
    /\ main_pc \in {"sr_close", "oc_close"}
    /\ thr' = [thr EXCEPT ![reader].port =
                              IF thr[reader].ser_set THEN "closed" ELSE @,
                          ![reader].stopreq = TRUE]
    /\ main_pc' = IF main_pc = "sr_close" THEN "sr_join" ELSE "oc_join"
    /\ UNCHANGED <<closing, after_id, timer_pending, root_alive, start_btn,
                   stop_btn, reader>>
    /\ UNCHANGED <<layoutVars, renderVars, decVars, bufVars>>

\* App.stop_reader: self.reader.join(timeout=1) returns, the thread ended or
\* not, and the buttons are reset
StopJoin ==
    /\ main_pc = "sr_join"
    /\ main_pc' = "idle"
    /\ start_btn' = "normal"
    /\ stop_btn' = "disabled"
    /\ UNCHANGED <<closing, after_id, timer_pending, root_alive, reader, thr>>
    /\ UNCHANGED <<layoutVars, renderVars, decVars, bufVars>>

\* App.on_close, from the Exit menu or the window manager: the flag, the
\* after_cancel, then reader.stop()'s first statement
OnClose ==
    /\ main_pc = "idle"
    /\ closing' = TRUE
    /\ timer_pending' = IF after_id THEN FALSE ELSE timer_pending
    /\ IF reader # 0
       THEN /\ thr' = StopFlag(reader)
            /\ main_pc' = "oc_close"
            /\ UNCHANGED root_alive
       ELSE /\ main_pc' = "closed"
            /\ root_alive' = FALSE
            /\ UNCHANGED thr
    /\ UNCHANGED <<after_id, start_btn, stop_btn, reader>>
    /\ UNCHANGED <<layoutVars, renderVars, decVars, bufVars>>

\* App.on_close: self.reader.join(timeout=2) returns; root.quit(), root.destroy()
CloseJoin ==
    /\ main_pc = "oc_join"
    /\ main_pc' = "closed"
    /\ root_alive' = FALSE
    /\ UNCHANGED <<closing, after_id, timer_pending, start_btn, stop_btn, reader, thr>>
    /\ UNCHANGED <<layoutVars, renderVars, decVars, bufVars>>

\* the process lives until on_close has destroyed the root: mainloop() then
\* returns, the interpreter exits and its daemon threads go with it
ProcessLive == main_pc # "closed"

\* UARTReader.run, first statement: self.running = True
ThreadRun(t) ==
    /\ thr[t].pc = "start"
    /\ thr' = [thr EXCEPT ![t].running = TRUE,
                          ![t].pc = IF thr[t].dummy THEN "loop" ELSE "open"]
    /\ UNCHANGED data

\* an except clause that reports the error and leaves the flag as it is
ThreadOpenKeepsFlag(t) ==
    /\ thr[t].pc = "open"
    /\ \E opened \in BOOLEAN :
          thr' = IF opened
                 THEN [thr EXCEPT ![t].port = "open", ![t].pc = "assign"]
                 ELSE [thr EXCEPT ![t].port = "failed", ![t].pc = "done"]
    /\ UNCHANGED data

\* UARTReader.run: serial.Serial(port, baudrate, timeout=1) returns or raises;
\* the except clause clears the flag and run() returns
ThreadOpen(t) ==
    /\ thr[t].pc = "open"
    /\ \E opened \in BOOLEAN :
          thr' = IF opened
                 THEN [thr EXCEPT ![t].port = "open", ![t].pc = "assign"]
                 ELSE [thr EXCEPT ![t].port = "failed", ![t].running = FALSE,
                                  ![t].pc = "done"]
    /\ UNCHANGED data

\* UARTReader.run: self.ser = <the connection just opened>
ThreadAssign(t) ==
    /\ thr[t].pc = "assign"
    /\ thr' = [thr EXCEPT ![t].ser_set = TRUE, ![t].pc = "loop"]
    /\ UNCHANGED data

\* `while self.running` of _run_dummy and of _run_uart; the dummy draws its floats
ThreadLoop(t) ==
    /\ thr[t].pc = "loop"
    /\ IF ~thr[t].running
       THEN thr' = [thr EXCEPT ![t].pc = "done"]
       ELSE IF thr[t].dummy
       THEN \E v \in SampleVals :
               thr' = [thr EXCEPT ![t].floats = v, ![t].pc = "cb_roll"]
       ELSE thr' = [thr EXCEPT ![t].pc = "read"]
    /\ UNCHANGED data

\* _run_uart: self.ser.read(FRAME_SIZE) and the decode pass. A closed port
\* raises, which run() catches; else the pass completes a valid frame or not.
ThreadRead(t) ==
    /\ thr[t].pc = "read"
    /\ IF thr[t].port = "closed"
       THEN thr' = [thr EXCEPT ![t].running = FALSE, ![t].pc = "done"]
       ELSE \E v \in {0} \cup SampleVals :
               thr' = IF v = 0
                      THEN [thr EXCEPT ![t].pc = "loop"]
                      ELSE [thr EXCEPT ![t].floats = v, ![t].pc = "cb_roll"]
    /\ UNCHANGED data

\* App.on_new_data on the reader's thread, first statement
ThreadRoll(t) ==
    /\ thr[t].pc = "cb_roll"
    /\ data' = Roll(data)
    /\ thr' = [thr EXCEPT ![t].pc = "cb_set"]

\* App.on_new_data, second statement; then the next turn of the loop
ThreadSet(t) ==
    /\ thr[t].pc = "cb_set"
    /\ data' = SetLast(data, Sample(thr[t].floats))
    /\ thr' = [thr EXCEPT ![t].floats = 0, ![t].pc = "loop"]

ThreadStep(t) ==
    /\ ProcessLive
    /\ \/ ThreadRun(t)
       \/ ThreadOpen(t)
       \/ ThreadAssign(t)
       \/ ThreadLoop(t)
       \/ ThreadRead(t)
       \/ ThreadRoll(t)
       \/ ThreadSet(t)
    /\ UNCHANGED <<mainVars, layoutVars, renderVars, decVars, pushed>>

\* a test that ignores the closing flag
IsClosingIgnored == FALSE

\* getattr(self, "_closing", False)
IsClosing == closing

\* self.data[ch_idx] * cfg.get("scale", 1.0)
Scaled(row, scale) == [k \in 1 .. Len(row) |-> row[k] * scale]

\* an update_plot that schedules the next call only after it has drawn
UpdatePlotEnterIdleStops(timer) ==
    /\ IF IsClosing
       THEN /\ last_tick' = [ran |-> TRUE, closing |-> closing,
                             touched |-> FALSE, scheduled |-> FALSE]
            /\ timer_pending' = IF timer THEN FALSE ELSE timer_pending
            /\ UNCHANGED <<main_pc, render_i, after_id>>
       ELSE IF config_data.truthy /\ lines # <<>>
       THEN /\ last_tick' = [ran |-> TRUE, closing |-> closing,
                             touched |-> FALSE, scheduled |-> FALSE]
            /\ timer_pending' = IF timer THEN FALSE ELSE timer_pending
            /\ main_pc' = "render"
            /\ render_i' = 1
            /\ UNCHANGED after_id
       ELSE /\ last_tick' = [ran |-> TRUE, closing |-> closing,
                             touched |-> FALSE, scheduled |-> FALSE]
            /\ timer_pending' = IF timer THEN FALSE ELSE timer_pending
            /\ UNCHANGED <<main_pc, render_i, after_id>>
    /\ UNCHANGED <<closing, root_alive, start_btn, stop_btn, reader, thr, obs>>
    /\ UNCHANGED <<layoutVars, decVars, bufVars>>

\* update_plot from its first line to the loop over self.lines, or to its end
\* when there is nothing to draw. `timer` tells a Tk timer call from a direct one.
UpdatePlotEnter(timer) ==
    /\ IF IsClosing
       THEN /\ last_tick' = [ran |-> TRUE, closing |-> closing,
                             touched |-> FALSE, scheduled |-> FALSE]
            /\ timer_pending' = IF timer THEN FALSE ELSE timer_pending
            /\ UNCHANGED <<main_pc, render_i, after_id>>
       ELSE IF config_data.truthy /\ lines # <<>>
       THEN /\ last_tick' = [ran |-> TRUE, closing |-> closing,
                             touched |-> FALSE, scheduled |-> FALSE]
            /\ timer_pending' = IF timer THEN FALSE ELSE timer_pending
            /\ main_pc' = "render"
            /\ render_i' = 1
            /\ UNCHANGED after_id
       ELSE /\ last_tick' = [ran |-> TRUE, closing |-> closing,
                             touched |-> FALSE, scheduled |-> root_alive]
            /\ timer_pending' = IF root_alive THEN TRUE
                                ELSE IF timer THEN FALSE ELSE timer_pending
            /\ after_id' = root_alive
            /\ UNCHANGED <<main_pc, render_i>>
    /\ UNCHANGED <<closing, root_alive, start_btn, stop_btn, reader, thr, obs>>
    /\ UNCHANGED <<layoutVars, decVars, bufVars>>

\* Tk runs the scheduled update_plot
TimerTick ==
    /\ main_pc = "idle"
    /\ timer_pending
    /\ UpdatePlotEnter(TRUE)

\* update_plot called once more after on_close has returned
LateTick ==
    /\ main_pc = "closed"
    /\ UpdatePlotEnter(FALSE)

\* a push is between its two statements
InFlight == {t \in Threads : thr[t].pc = "cb_set"}

\* the rows of channel r just before and just after the pushes in flight
RowsAroundPush(r) ==
    IF InFlight = {} THEN {data[r]}
    ELSE UNION {{RollRowRight(data[r]),
                 [data[r] EXCEPT ![history_length] = Sample(thr[t].floats)[r]]}
                : t \in InFlight}

\* update_plot: one turn of `for item in self.lines`
RenderLine ==
    /\ main_pc = "render"
    /\ LET item == lines[render_i]
       IN  IF item.ch_idx >= NCHANNELS
           THEN \* IndexError leaves update_plot: nothing is rescheduled
                /\ main_pc' = "idle"
                /\ render_i' = 0
                /\ obs' = NoObs
                /\ UNCHANGED last_tick
           ELSE /\ obs' = [ch_idx |-> item.ch_idx,
                           row |-> data[item.ch_idx + 1],
                           y |-> Scaled(data[item.ch_idx + 1], GetScale(item.cfg)),
                           allowed |-> RowsAroundPush(item.ch_idx + 1)]
                /\ last_tick' = [last_tick EXCEPT !.touched = TRUE]
                /\ IF render_i = Len(lines)
                   THEN main_pc' = "draw" /\ render_i' = 0
                   ELSE main_pc' = "render" /\ render_i' = render_i + 1
    /\ UNCHANGED <<closing, after_id, timer_pending, root_alive, start_btn,
                   stop_btn, reader, thr>>
    /\ UNCHANGED <<layoutVars, decVars, bufVars>>

\* update_plot: relim, autoscale_view, canvas.draw(), then root.after(100, ...)
RenderDraw ==
    /\ main_pc = "draw"
    /\ main_pc' = "idle"
    /\ obs' = NoObs
    /\ IF root_alive
       THEN /\ after_id' = TRUE
            /\ timer_pending' = TRUE
            /\ last_tick' = [last_tick EXCEPT !.scheduled = TRUE]
       ELSE UNCHANGED <<after_id, timer_pending, last_tick>>
    /\ UNCHANGED <<closing, root_alive, start_btn, stop_btn, reader, thr, render_i>>
    /\ UNCHANGED <<layoutVars, decVars, bufVars>>

---------------------------------------------------------------------------
(* Specifications                                                          *)

\* the decode loop alone: the buffer and the application stay as constructed
InitDecode == DecInit /\ BufInit /\ AppInit

SpecDecode == InitDecode /\ [][DecNext]_vars

Init == DecIdle /\ BufInit /\ AppInit

\* the rolling buffer alone, one writer, no reader
SpecBuf == Init /\ [][Push]_vars

\* the layout and the render tick, with a source whose callbacks run to their
\* end between two steps of the main thread
NextLayout ==
    \/ LoadConfigAny
    \/ TimerTick
    \/ RenderLine
    \/ RenderDraw
    \/ Push

SpecLayout == Init /\ [][NextLayout]_vars

Next ==
    \/ LoadConfig
    \/ StartReader
    \/ StopReader
    \/ StopClose
    \/ StopJoin
    \/ OnClose
    \/ CloseJoin
    \/ TimerTick
    \/ LateTick
    \/ RenderLine
    \/ RenderDraw
    \/ \E t \in Threads : ThreadStep(t)

Spec == Init /\ [][Next]_vars

\* every thread that can take a step is scheduled in the end, and a handler the
\* main thread is inside of runs on
Fairness ==
    /\ \A t \in Threads : WF_vars(ThreadStep(t))
    /\ WF_vars(StopClose)
    /\ WF_vars(StopJoin)
    /\ WF_vars(CloseJoin)
    /\ WF_vars(RenderLine)
    /\ WF_vars(RenderDraw)

FairSpec == Spec /\ Fairness

---------------------------------------------------------------------------
(* Claims about the frame decoder (checked under SpecDecode)               *)

ValidKinds == {"A", "B"}

\* the sample set a frame with this payload stands for: value c (from 0) is the
\* little-endian number in bytes 4c .. 4c+3
SampleOf(bytes) ==
    [c \in 1 .. 16 |-> <<bytes[4 * c - 1] + 256 * bytes[4 * c],
                         bytes[4 * c - 3] + 256 * bytes[4 * c - 2]>>]

\* offset in the wire of the first byte of segment i (from 0), and one past its last
SegStart(i) == Len(WireOf(SubSeq(wire_segs, 1, i - 1)))
SegEnd(i) == Len(WireOf(SubSeq(wire_segs, 1, i)))

\* the segments wholly delivered by ser.read so far
Delivered == {i \in 1 .. Len(wire_segs) : SegEnd(i) <= uart_pos}

AllDelivered == uart_pos = Len(wire)

EndsInTerminator(frame) ==
    /\ Len(frame) >= 2
    /\ frame[Len(frame) - 1] = 170
    /\ frame[Len(frame)] = 187

\* C1: a stream of K valid frames, however ser.read splits it, has produced one
\* callback per frame wholly received, in stream order: K callbacks at the end.
C1_ValidStreamOneCallbackPerFrame ==
    (\A i \in 1 .. Len(wire_segs) : wire_segs[i] \in ValidKinds)
        => /\ Len(uart_calls) = Cardinality(Delivered)
           /\ \A i \in Delivered : uart_calls[i] = SampleOf(SegBytes(wire_segs[i]))

\* two different valid frames, wholly received, two callbacks
C1_Witness ==
    /\ wire_segs = <<"A", "B">>
    /\ AllDelivered
    /\ Len(uart_calls) = 2
    /\ uart_calls[1] # uart_calls[2]

\* C2: a candidate frame that ends in the terminator emits exactly one sample set
\* of 16 values, value c being the little-endian number in its bytes 4c .. 4c+3.
C2_TerminatedFrameDecodesLittleEndian ==
    \A i \in 1 .. Len(uart_log) :
        LET f == uart_log[i].frame
            out == uart_log[i].out
        IN  EndsInTerminator(f)
              => /\ Len(f) = 66
                 /\ Len(out) = 1
                 /\ Len(out[1]) = 16
                 /\ \A c \in 0 .. 15 :
                        out[1][c + 1] = <<f[4 * c + 3] + 256 * f[4 * c + 4],
                                          f[4 * c + 1] + 256 * f[4 * c + 2]>>

\* a terminated candidate with distinct payload bytes has been decoded
C2_Witness ==
    \E i \in 1 .. Len(uart_log) :
        /\ EndsInTerminator(uart_log[i].frame)
        /\ SubSeq(uart_log[i].frame, 1, 4) = <<4, 7, 10, 13>>
        /\ uart_log[i].out # <<>>

\* C3: a candidate frame that does not end in the terminator invokes no callback
\* and costs exactly 66 bytes of the buffer; decoding goes on with the next block
\* and the reader keeps running (only stop() clears the running flag).
C3_MalformedFrameDroppedWhole ==
    /\ \A i \in 1 .. Len(uart_log) :
          ~EndsInTerminator(uart_log[i].frame)
             => Len(uart_log[i].frame) = 66 /\ uart_log[i].out = <<>>
    /\ Len(uart_calls) =
          Cardinality({i \in 1 .. Len(uart_log) : EndsInTerminator(uart_log[i].frame)})
    /\ 66 * Len(uart_log) + Len(uart_buffer) = uart_pos
    /\ Len(uart_log) = uart_pos \div 66
    /\ uart_running = ~uart_stopreq

\* a malformed block was dropped and the block after it was decoded
C3_Witness ==
    /\ Len(uart_log) = 2
    /\ ~EndsInTerminator(uart_log[1].frame)
    /\ uart_log[1].out = <<>>
    /\ uart_log[2].out # <<>>
    /\ uart_running

\* C4 as claimed: the decoder re-aligns byte by byte, so every valid frame that
\* was sent is found and emitted, also after a stray or a dropped byte.
C4_ResyncFindsEveryValidFrame ==
    AllDelivered
        => \A i \in 1 .. Len(wire_segs) :
              wire_segs[i] \in ValidKinds
                 => \E j \in 1 .. Len(uart_calls) :
                        uart_calls[j] = SampleOf(SegBytes(wire_segs[i]))

\* C4 as amended: no re-alignment. Candidate j is always the j-th 66-byte block
\* of the received stream and a malformed candidate costs the whole block: what
\* is emitted is exactly the terminated blocks among those, so a valid frame that
\* was sent is emitted from its own bytes when it starts at a multiple of 66
\* bytes, and its bytes are never a candidate otherwise.
C4_BlockAlignedOnly ==
    /\ Len(uart_log) = uart_pos \div 66
    /\ \A j \in 1 .. Len(uart_log) :
          LET block == SubSeq(wire, 66 * (j - 1) + 1, 66 * j)
          IN  /\ uart_log[j].frame = block
              /\ uart_log[j].out =
                    IF EndsInTerminator(block) THEN <<SampleOf(block)>> ELSE <<>>
    /\ \A i \in Delivered :
          (wire_segs[i] \in ValidKinds /\ SegStart(i) % 66 = 0)
             => uart_log[(SegStart(i) \div 66) + 1].out
                    = <<SampleOf(SegBytes(wire_segs[i]))>>

\* a valid frame sent after one stray byte, wholly received, and never emitted
C4_Witness ==
    /\ wire_segs = <<"J", "A">>
    /\ AllDelivered
    /\ Len(uart_log) = 1
    /\ uart_calls = <<>>

\* the bytes of the candidate frames taken so far, in order
Consumed ==
    [k \in 1 .. 66 * Len(uart_log) |->
        uart_log[((k - 1) \div 66) + 1].frame[((k - 1) % 66) + 1]]

\* C20: after each pass the buffer holds fewer than 66 bytes, every candidate
\* taken was 66 bytes long, and the candidates in order followed by the buffer
\* are the bytes received so far: none dropped, duplicated or reordered.
C20_DecoderConservesBytes ==
    /\ Len(uart_buffer) < 66
    /\ \A j \in 1 .. Len(uart_log) : Len(uart_log[j].frame) = 66
    /\ Consumed \o uart_buffer = SubSeq(wire, 1, uart_pos)

\* a block was consumed and dropped, and bytes of the next one wait in the buffer
C20_Witness ==
    /\ Len(uart_log) = 1
    /\ uart_log[1].out = <<>>
    /\ uart_buffer # <<>>
    /\ uart_pos = Len(wire)

---------------------------------------------------------------------------
(* Claims about the reader's life cycle and the render tick (Spec, FairSpec) *)

\* thread t is in its production loop with a callback ahead of it
Producing(t) ==
    \/ thr[t].pc \in {"cb_roll", "cb_set"}
    \/ thr[t].pc \in {"loop", "read"} /\ thr[t].running

\* C5: once stop() has been called on a started source, its thread leaves the
\* production loop in the end (as long as the process lives), whenever stop() came.
C5_StopLeadsToExit ==
    \A t \in Threads :
        thr[t].stopreq ~> (thr[t].pc = "done" \/ ~ProcessLive)

\* C6: a transport source that was stopped and whose thread has ended holds no
\* open connection.
C6_StoppedSourceLeavesPortClosed ==
    \A t \in Threads :
        (thr[t].stopreq /\ thr[t].pc = "done") => thr[t].port # "open"

\* C7: at most one source thread is alive and producing at any time.
C7_AtMostOneProducer ==
    Cardinality({t \in Threads : Producing(t)}) <= 1

\* C8: once the closing flag is set no tick is pending, the main thread is not
\* inside the render loop, and the latest update_plot call, if it began with the
\* flag set, neither touched the rendering collaborator nor scheduled a tick.
C8_NoRenderAfterClosing ==
    closing
        => /\ ~timer_pending
           /\ main_pc \notin {"render", "draw"}
           /\ obs = NoObs
           /\ last_tick.closing => (~last_tick.touched /\ ~last_tick.scheduled)

\* update_plot has run after on_close set the flag, with a layout loaded
C8_Witness ==
    /\ closing
    /\ last_tick.ran
    /\ last_tick.closing
    /\ config_data.truthy
    /\ lines # <<>>

\* C9: a row the render tick reads while a push may be in flight is the row
\* as it was just before the push or as it is just after it.
C9_RowReadIsBeforeOrAfterPush ==
    obs # NoObs => obs.row \in obs.allowed

\* the places of a thread inside its production loop or inside a callback
InLoop == {"loop", "read", "cb_roll", "cb_set"}

\* C14: a transport source whose serial.Serial raised has ended with its running
\* flag false and stays so; it is never inside its production loop or a
\* callback, before or after: a transport thread found there has opened its
\* port, and a port that was opened never turns into one that failed to open.
C14_OpenFailureNeverProduces ==
    /\ [](\A t \in Threads :
            /\ thr[t].port = "failed"
                  => (thr[t].pc = "done" /\ ~thr[t].running /\ ~thr[t].dummy)
            /\ (~thr[t].dummy /\ thr[t].pc \in InLoop)
                  => thr[t].port \in {"open", "closed"})
    /\ [][\A t \in Threads :
            /\ thr[t].port = "failed" => thr'[t].port = "failed"
            /\ thr'[t].port = "failed" => thr[t].port \in {"none", "failed"}]_vars

\* a source failed to open its port while the application runs on
C14_Witness ==
    \E t \in Threads :
        /\ thr[t].port = "failed"
        /\ thr[t].pc = "done"
        /\ reader = t
        /\ main_pc = "idle"

\* C15: the buffer always has 16 rows of history_length entries; it is all
\* zeros while no source was started, and it changes only by a step of a thread
\* that is inside a callback: not by start, stop, restart or a config load.
C15_BufferShapeFixed ==
    /\ [](/\ DOMAIN data = 1 .. 16
          /\ \A r \in 1 .. 16 : DOMAIN data[r] = 1 .. history_length
          /\ Created = {} => data = Zeros)
    /\ [][data' # data
            => \E t \in Threads :
                  /\ thr[t].pc \in {"cb_roll", "cb_set"}
                  /\ thr'[t].pc # thr[t].pc]_vars

\* samples were pushed, the source was stopped, a second one started and a
\* layout loaded
C15_Witness ==
    /\ data # Zeros
    /\ Cardinality(Created) = 2
    /\ thr[1].stopreq
    /\ config_data.truthy

---------------------------------------------------------------------------
(* Claims about the rolling buffer (SpecBuf)                               *)

\* C10: after M pushes every row holds the last history_length pushed values of
\* its channel, oldest first, with zeros in front while M < history_length.
C10_BufferHoldsLastNInOrder ==
    LET M == Len(pushed)
        N == history_length
    IN  \A c \in 1 .. 16 :
            /\ Len(data[c]) = N
            /\ \A k \in 1 .. N :
                  data[c][k] = IF M - N + k >= 1 THEN pushed[M - N + k][c] ELSE 0

\* more pushes than the buffer is deep, and the evicted value differs from the
\* oldest one kept
C10_Witness ==
    /\ Len(pushed) > history_length
    /\ pushed[Len(pushed) - history_length] # pushed[Len(pushed) - history_length + 1]
    /\ pushed[Len(pushed)] # pushed[Len(pushed) - 1]

---------------------------------------------------------------------------
(* Claims about the layout configuration (SpecLayout)                      *)

\* the load raises before load_config returns
LoadFails(doc) == doc.kind \in {"unparseable", "list", "badchan"}

Max(a, b) == IF a > b THEN a ELSE b

\* C11: a load that fails (the file is not parseable, or setup_plots raises
\* part-way on a document of unexpected shape) leaves config_data, subplots,
\* lines and channel_keys as they were.
C11_FailedLoadLeavesLayout ==
    [][\A doc \in AllDocs :
          (LoadFails(doc) /\ LoadDoc(doc))
             => UNCHANGED <<config_data, subplots, lines, channel_keys>>]_vars

\* a load that went through: json.load returned an object and setup_plots
\* returned
Loaded == config_data.kind = "doc"

\* C12: after a successful load the lines and the channel keys are those of the
\* new document alone, in its order; nothing of the layout before it is left.
C12_LoadReplacesLayout ==
    Loaded
        => /\ channel_keys = [k \in 1 .. Len(config_data.channels) |->
                                 config_data.channels[k].key]
           /\ Len(lines) = Len(config_data.channels)
           /\ \A k \in 1 .. Len(lines) : lines[k].cfg = config_data.channels[k]

\* the subplot index a channel declares, 0 when it declares none
Declared(cfg) == IF "subplot" \in DOMAIN cfg THEN cfg.subplot ELSE 0

\* C13: with S subplots, every line was drawn on subplot min(max(declared, 0),
\* S - 1) of its channel's declared index (0 when none is declared), which lies
\* in 0 .. S - 1.
C13_SubplotIndexClamped ==
    \A k \in 1 .. Len(lines) :
        /\ subplots >= 1
        /\ lines[k].subplot = Min(Max(Declared(lines[k].cfg), 0), subplots - 1)
        /\ lines[k].subplot \in 0 .. subplots - 1

\* 99 with two subplots resolved to 1, and -5 to 0
C13_Witness ==
    /\ subplots = 2
    /\ \E k \in 1 .. Len(lines) :
          Declared(lines[k].cfg) = 99 /\ lines[k].subplot = 1
    /\ \E k \in 1 .. Len(lines) :
          Declared(lines[k].cfg) = -5 /\ lines[k].subplot = 0

\* C16: after a load the number of subplots is max(1, number of declared
\* subplots): 1 when the "subplots" list is empty or absent.
C16_SubplotCountAtLeastOne ==
    Loaded => subplots = Max(1, Len(config_data.subplots))

---------------------------------------------------------------------------
(* Claims about the layout and the render tick (SpecLayout)                *)

\* the scale a channel configures, 1 when it configures none
ScaleOf(cfg) == IF "scale" \in DOMAIN cfg THEN cfg.scale ELSE 1

\* C17: after a load that ran to its end, the k-th key of the document (from 0)
\* is the k-th channel key and its line carries index k; a line the render tick
\* hands data to gets row k of the buffer as it is at that moment, every value
\* multiplied by the channel's scale (1 by default); and the lines and the keys
\* change only by a load.
C17_ChannelBoundToRowInOrder ==
    /\ []((Loaded /\ config_data.truthy)
            => \A k \in 1 .. Len(config_data.channels) :
                  /\ channel_keys[k] = config_data.channels[k].key
                  /\ lines[k].ch_idx = k - 1
                  /\ lines[k].cfg = config_data.channels[k])
    /\ [](obs # NoObs
            => /\ obs.ch_idx + 1 \in 1 .. Len(lines)
               /\ lines[obs.ch_idx + 1].ch_idx = obs.ch_idx
               /\ obs.y = [j \in 1 .. history_length |->
                              obs.row[j] * ScaleOf(lines[obs.ch_idx + 1].cfg)])
    /\ [][(obs' # NoObs /\ obs' # obs) => obs'.row = data[obs'.ch_idx + 1]]_vars
    /\ [][(lines' # lines \/ channel_keys' # channel_keys)
            => \E doc \in AllDocs : LoadDoc(doc)]_vars

\* the second channel of a document, scale 3, rendered from row 1 of a full buffer
C17_Witness ==
    /\ config_data = DocTwo
    /\ obs # NoObs
    /\ obs.ch_idx = 1
    /\ obs.row = <<102, 202, 102>>
    /\ obs.y = <<306, 606, 306>>

\* no document is loaded: config_data is None
NoLayout == config_data = NoDoc

\* C18: while no document is loaded the main thread is never inside the render
\* loop; a tick then touches no line, leaves the buffer and the layout state as
\* they are and schedules the next tick; and a tick that finds a document with
\* lines goes into the render loop.
C18_IdleTickWithoutLayout ==
    /\ [](NoLayout => (main_pc \notin {"render", "draw"} /\ obs = NoObs))
    /\ [][(NoLayout /\ TimerTick)
            => /\ main_pc' = "idle"
               /\ ~last_tick'.touched
               /\ last_tick'.scheduled
               /\ timer_pending'
               /\ after_id'
               /\ UNCHANGED <<data, config_data, subplots, lines, channel_keys>>]_vars
    /\ [][(config_data.truthy /\ lines # <<>> /\ TimerTick)
            => main_pc' = "render"]_vars

\* a tick has run with samples in the buffer and no document loaded, and the
\* next one is scheduled
C18_Witness ==
    /\ NoLayout
    /\ data # Zeros
    /\ last_tick.ran
    /\ ~last_tick.touched
    /\ last_tick.scheduled
    /\ timer_pending

\* C19: while the closing flag is unset and the root exists, every update_plot
\* call that has returned has left the next one scheduled: between two calls
\* exactly one tick is pending, for every layout and every buffer content.
C19_TickAlwaysRescheduled ==
    (~closing /\ root_alive /\ main_pc = "idle") => timer_pending

=============================================================================
